---- MODULE Spec2Model ----
(***************************************************************************)
(* Event update pipeline of the event-management API (src/app.js holds the *)
(* event controller: updateEvent and its helpers; src/utils/s3Helper.js    *)
(* the object-storage adapter).                                            *)
(*                                                                         *)
(* Each HTTP request is an asynchronous task that can be suspended at      *)
(* every await; one action of the model is the code between two awaits.    *)
(* The database is MongoDB driven through mongoose sessions: operations    *)
(* that carry the session read the snapshot taken by the transaction's     *)
(* first operation, stage their writes until commitTransaction, and fail   *)
(* with a write conflict when the document was written by another          *)
(* transaction since the snapshot.  Operations without the session         *)
(* (Settings.findOne, logActivity, the storage calls) act at once.         *)
(***************************************************************************)
EXTENDS Integers, FiniteSets, Sequences, TLC

VARIABLES
    storageType,     \* process.env.STORAGE_TYPE || 'cloudinary'
    settings,        \* the Settings singleton
    events,          \* Event collection: id -> document
    evVer,           \* commit timestamp of each Event document
    evLock,          \* transactions holding the write lock of each Event
    participations,  \* Participation collection: id -> document
    notifications,   \* Notification collection (committed documents)
    blobs,           \* storage keys whose blob is present in storage
    logs,            \* activity-log entries written by logActivity
    req,             \* per updateEvent request: position and local variables
    del,             \* the deleteEvent request: position and local variables
    cre,             \* the createEvent request: position and local variables
    users,           \* the users collection
    uu,              \* per updateUser request: position and local variables
    av               \* the updateAvatar request: position and local variables

vars == <<storageType, settings, events, evVer, evLock, participations,
          notifications, blobs, logs, req, del, cre, users, uu, av>>

(***************************************************************************)
(* Bounds                                                                  *)
(***************************************************************************)
\* Number of updateEvent requests, all of which may be in flight together.
NumReqs == 2

Reqs == 1 .. NumReqs
EventIds == {"e1", "e2", "e3"}
PartIds == {"p1", "p2", "p3", "p4"}

\* let imageKey = null
NoKey == 0

\* A value that may be absent (undefined / not in the request body).
Absent == [has |-> FALSE, val |-> 0]
Some(v) == [has |-> TRUE, val |-> v]
AbsentStr == [has |-> FALSE, val |-> ""]
SomeStr(v) == [has |-> TRUE, val |-> v]

\* Event.findById(...) found nothing.
NoDoc == [exists |-> FALSE, title |-> "", maxAttendees |-> 0, image |-> NoKey,
          organizer |-> "", status |-> "", publicity |-> FALSE]

Doc(t, m, i, o, s) == [exists |-> TRUE, title |-> t, maxAttendees |-> m,
                       image |-> i, organizer |-> o, status |-> s,
                       publicity |-> TRUE]

\* uploadToS3 returns `uploads/${randomImageName()}`: a key no other upload has.
FreshKey(r) == 10 + r

(***************************************************************************)
(* Pure helpers of updateEvent                                             *)
(***************************************************************************)

\* Faulty variant: the not-found check is missing.
NotFound_Skipped(doc) == FALSE

\* if (!existingEvent)
NotFound(doc) == ~doc.exists

\* Faulty variant: the fan-out is not gated by the change detector.
FanOutDue_Always(changes) == TRUE

\* if (changes)
FanOutDue(changes) == changes

\* Faulty variant: the write is made without the session and reaches the collection
\* at once.
SessionInsert_NoSession(collection, staged, docs) == <<collection \cup docs, staged>>

\* A write made with {session} is staged in the transaction and reaches the
\* collection at commit: <<collection, staged>> after the write.
SessionInsert(collection, staged, docs) == <<collection, staged \cup docs>>

\* if (!settings || !settings.eventSettings)
SettingsMissing(s) == ~s.exists \/ ~s.eventSettings

\* Faulty variant: the comparison with the ceiling is inverted.
CapacityExceeded_Inverted(ud, s) ==
    /\ ud.maxAttendees.has
    /\ ud.maxAttendees.val # 0
    /\ s.maxAttendeesPerEvent.has
    /\ ud.maxAttendees.val < s.maxAttendeesPerEvent.val

\* const maxAllowed = settings.eventSettings.maxAttendeesPerEvent;
\* if (updateData.maxAttendees && updateData.maxAttendees > maxAllowed)
\* (a comparison with undefined is false in JavaScript)
CapacityExceeded(ud, s) ==
    /\ ud.maxAttendees.has
    /\ ud.maxAttendees.val # 0
    /\ s.maxAttendeesPerEvent.has
    /\ ud.maxAttendees.val > s.maxAttendeesPerEvent.val

\* const updateData = { ...req.body, image: imageKey || existingEvent.image }
\* Faulty variant: an image field of the request body survives the spread.
UpdateData_BodyImage(body, imageKey, existing) ==
    [title |-> body.title, maxAttendees |-> body.maxAttendees,
     image |-> IF body.image.has THEN body.image.val
               ELSE IF imageKey # NoKey THEN imageKey ELSE existing.image]

UpdateData(body, imageKey, existing) ==
    LET spread == [title |-> body.title, maxAttendees |-> body.maxAttendees,
                   image |-> body.image]
    IN  [spread EXCEPT !.image = IF imageKey # NoKey THEN imageKey
                                 ELSE existing.image]

\* Change Detector: true iff a compared, participant-relevant field of the
\* proposed update differs from the existing event (the title stands for the
\* compared fields; capacity and media are not compared).
detectEventChanges(existing, ud) ==
    ud.title.has /\ ud.title.val # existing.title

\* Event.findByIdAndUpdate(id, updateData, {new: true, ...}): the fields of
\* updateData are set on the document, every other field is kept.
ApplyUpdate(doc, ud) ==
    [doc EXCEPT !.title = IF ud.title.has THEN ud.title.val ELSE @,
                !.maxAttendees = IF ud.maxAttendees.has THEN ud.maxAttendees.val ELSE @,
                !.image = ud.image]

\* Faulty variant: the status filter is missing from the query.
ApprovedParticipations_AnyStatus(parts, e) ==
    {p \in PartIds : parts[p].event = e}

\* Participation.find({event: req.params.eventId, status: 'approved'})
ApprovedParticipations(parts, e) ==
    {p \in PartIds : parts[p].event = e /\ parts[p].status = "approved"}

\* participations.map(participation => ({userId, type, message, relatedId,
\* notificationSender, data, isRead}))
NotificationDraft(parts, p, title, organizerId, r) ==
    [userId |-> parts[p].user, type |-> "eventUpdate", title |-> title,
     relatedId |-> p, notificationSender |-> organizerId, isRead |-> FALSE,
     req |-> r]

NotificationDrafts(parts, targets, title, organizerId, r) ==
    {NotificationDraft(parts, p, title, organizerId, r) : p \in targets}

\* The old image is deleted when the request carries a file and the existing
\* event has an image (if (req.file) { ...; if (existingEvent.image) ... }).
HasOldImage(existing) == existing.image # NoKey

\* deleteOldImage: only the s3 backend deletes anything.
DeleteOldImageActs(st) == st = "s3"

\* Faulty variant: only open transactions conflict; a write committed since the
\* snapshot goes unnoticed.
WriteConflict_LockOnly(r, e, snapVer, ver, lock) ==
    lock[e] \ {r} # {}

\* A transactional write fails with a write conflict when the document was
\* committed by another transaction after this transaction's snapshot, or is
\* write-locked by another open transaction.
WriteConflict(r, e, snapVer, ver, lock) ==
    \/ ver[e] # snapVer
    \/ lock[e] \ {r} # {}

\* deleteFromS3(key): the value returned. sendOk tells whether
\* s3Client.send(new DeleteObjectCommand(...)) resolved; the service answers
\* a delete of a key it does not hold like any other delete.
deleteFromS3(key, sendOk) ==
    IF key = NoKey THEN FALSE ELSE sendOk

\* deleteFromS3(key): the storage after the call
S3AfterDelete(stored, key, sendOk) ==
    IF key # NoKey /\ sendOk THEN stored \ {key} ELSE stored

\* Faulty variant: a failure of the sink is passed on to the caller.
logActivityRejects_OnFailure(sinkOk) == ~sinkOk

\* logActivity is a fire-and-forget sink: whether or not the entry could be
\* written (sinkOk), the promise the handler awaits never rejects.
logActivityRejects(sinkOk) == FALSE

\* Faulty variant: the catch block removes the request's new upload.
CatchStorage_Compensates(q, stored) == stored \ {q.imageKey}

\* The catch block of updateEvent leaves the storage as it is.
CatchStorage(q, stored) == stored

(***************************************************************************)
(* Initial state                                                           *)
(***************************************************************************)
NoBody == [title |-> AbsentStr, maxAttendees |-> Absent, image |-> Absent]

IdleReq ==
    [pc |-> "idle", eventId |-> "e1", file |-> FALSE, tmp |-> FALSE,
     body |-> NoBody, existing |-> NoDoc, snapVer |-> 0,
     parts |-> [p \in PartIds |-> [event |-> "", user |-> "", status |-> ""]],
     imageKey |-> NoKey, updateData |-> UpdateData(NoBody, NoKey, NoDoc),
     changes |-> FALSE, wEvent |-> NoDoc, wNotifs |-> {}, tx |-> "none",
     resp |-> 0, err |-> "", oldDeleted |-> FALSE, logFailed |-> FALSE,
     ended |-> FALSE]

\* the deleteEvent request before it arrives
IdleDel ==
    [pc |-> "idle", eventId |-> "e1", deleted |-> NoDoc, resp |-> 0,
     err |-> "", logFailed |-> FALSE]

\* the createEvent request before it arrives
IdleCre ==
    [pc |-> "idle", file |-> FALSE, tmp |-> FALSE, maxAttendees |-> Absent,
     imageKey |-> NoKey, maxAllowed |-> Absent, newEvent |-> NoDoc,
     saved |-> FALSE, resp |-> 0, err |-> "", logFailed |-> FALSE]

SettingsValues ==
    { [exists |-> FALSE, eventSettings |-> FALSE, maxAttendeesPerEvent |-> Absent],
      [exists |-> TRUE, eventSettings |-> FALSE, maxAttendeesPerEvent |-> Absent],
      [exists |-> TRUE, eventSettings |-> TRUE, maxAttendeesPerEvent |-> Absent],
      [exists |-> TRUE, eventSettings |-> TRUE, maxAttendeesPerEvent |-> Some(100)] }

UserIds == {"u1", "u2", "u3"}

NoUser == [exists |-> FALSE, username |-> "", email |-> "", avatar |-> NoKey]

\* the users collection before any request: usernames and emails are unique,
\* the one avatar is in storage
SeedUsers ==
    [u \in UserIds |->
       CASE u = "u1" -> [exists |-> TRUE, username |-> "a", email |-> "a@",
                         avatar |-> 2]
         [] u = "u2" -> [exists |-> TRUE, username |-> "b", email |-> "b@",
                         avatar |-> NoKey]
         [] OTHER -> NoUser]

\* the updateUser request before it arrives
IdleUU ==
    [pc |-> "idle", userId |-> "u1", username |-> AbsentStr, email |-> AbsentStr,
     password |-> "none", user |-> NoUser, resp |-> 0, err |-> ""]

\* the updateAvatar request before it arrives
IdleAv ==
    [pc |-> "idle", userId |-> "u1", file |-> FALSE, tmp |-> FALSE,
     avatarKey |-> NoKey, user |-> NoUser, oldDeleted |-> FALSE,
     saved |-> FALSE, resp |-> 0, err |-> ""]

\* the events collection before any request
SeedEvents ==
    [e \in EventIds |->
       CASE e = "e1" -> Doc("t1", 50, 1, "o1", "upcoming")
         [] e = "e2" -> Doc("t1", 50, NoKey, "o2", "upcoming")
         [] OTHER -> NoDoc]

\* the participations collection before any request
SeedParticipations ==
    [p \in PartIds |->
       CASE p = "p1" -> [event |-> "e1", user |-> "u1", status |-> "approved"]
         [] p = "p2" -> [event |-> "e1", user |-> "u2", status |-> "approved"]
         [] p = "p3" -> [event |-> "e1", user |-> "u3", status |-> "pending"]
         [] OTHER -> [event |-> "e2", user |-> "u1", status |-> "rejected"]]

Init ==
    /\ storageType \in {"s3", "cloudinary"}
    /\ settings \in SettingsValues
    /\ events = SeedEvents
    /\ evVer = [e \in EventIds |-> 0]
    /\ evLock = [e \in EventIds |-> {}]
    /\ participations = SeedParticipations
    /\ notifications = {}
    /\ blobs = {1, 2}
    /\ logs = {}
    /\ req = [r \in Reqs |-> IdleReq]
    /\ del = IdleDel
    /\ cre = IdleCre
    /\ users = SeedUsers
    /\ uu = [r \in Reqs |-> IdleUU]
    /\ av = IdleAv

(***************************************************************************)
(* updateEvent, one action per stretch of code between two awaits          *)
(***************************************************************************)
\* Request bodies: nothing, a new title only, the old title with a new
\* capacity under the ceiling, a new title with a capacity over the ceiling.
\* an image key a client writes into the request body
ClientImage == 9

Bodies ==
    { [title |-> AbsentStr, maxAttendees |-> Absent, image |-> Absent],
      [title |-> SomeStr("t2"), maxAttendees |-> Absent, image |-> Some(ClientImage)],
      [title |-> SomeStr("t1"), maxAttendees |-> Some(60), image |-> Absent],
      [title |-> SomeStr("t2"), maxAttendees |-> Some(150), image |-> Absent] }

\* await session.abortTransaction(); return res.status(code)...; finally
\* session.endSession()
AbortAndRespond(q, code) ==
    [q EXCEPT !.tx = "aborted", !.resp = code, !.pc = "done", !.ended = TRUE,
              !.wEvent = NoDoc, !.wNotifs = {}]

\* the transaction of r ends: its write locks are released
Release(r) == [e \in EventIds |-> evLock[e] \ {r}]

\* an awaited call rejects: control passes to the catch block with err
Throw(q, what) == [q EXCEPT !.pc = "catch", !.err = what]

\* startSession, startTransaction, Event.findById(...).session(session):
\* the transaction's first read fixes its snapshot.
Load(r) ==
    /\ req[r].pc = "idle"
    /\ \E e \in EventIds, f \in BOOLEAN, b \in Bodies :
         LET q == [IdleReq EXCEPT !.eventId = e, !.file = f,
                                  !.tmp = (f /\ storageType = "cloudinary"),
                                  !.body = b, !.tx = "active",
                                  !.existing = events[e], !.snapVer = evVer[e],
                                  !.parts = participations]
         IN  \/ /\ NotFound(events[e])
                /\ req' = [req EXCEPT ![r] = AbortAndRespond(q, 404)]
             \/ /\ ~NotFound(events[e])
                /\ req' = [req EXCEPT ![r] =
                             [q EXCEPT !.pc = IF f THEN "upload" ELSE "validate"]]
             \/ \* the query itself fails
                req' = [req EXCEPT ![r] = Throw([q EXCEPT !.existing = NoDoc], "load")]
    /\ UNCHANGED <<del, cre, users, uu, av>>
    /\ UNCHANGED <<storageType, settings, events, evVer, evLock, participations,
                   notifications, blobs, logs>>

\* Faulty variant: a failed upload is swallowed and the update goes on
\* without a new image.
UploadRejected_Swallowed(q) == [q EXCEPT !.err = "upload", !.pc = "validate"]

\* uploadToS3 / uploadToCloudinary rejects inside the try block
UploadRejected(q) == Throw(q, "upload")

AfterUpload(q) ==
    IF HasOldImage(q.existing) THEN "delOld" ELSE "validate"

\* uploadToS3 / uploadToCloudinary + fs.unlinkSync(req.file.path)
Upload(r) ==
    /\ req[r].pc = "upload"
    /\ \/ /\ storageType = "s3"
          /\ LET k == FreshKey(r) IN
               /\ blobs' = blobs \cup {k}
               /\ req' = [req EXCEPT ![r].imageKey = k,
                                     ![r].pc = AfterUpload(req[r])]
       \/ /\ storageType = "cloudinary"
          \* response.secure_url is undefined when the service answers with an
          \* error body
          /\ \E k \in {FreshKey(r), NoKey} :
               /\ blobs' = blobs \cup ({k} \ {NoKey})
               /\ req' = [req EXCEPT ![r].imageKey = k,
                                     ![r].tmp = FALSE,
                                     ![r].pc = AfterUpload(req[r])]
       \/ \* the upload throws
          /\ blobs' = blobs
          /\ req' = [req EXCEPT ![r] = UploadRejected(req[r])]
    /\ UNCHANGED <<del, cre, users, uu, av>>
    /\ UNCHANGED <<storageType, settings, events, evVer, evLock, participations,
                   notifications, logs>>

\* await deleteOldImage(existingEvent.image)
DeleteOld(r) ==
    /\ req[r].pc = "delOld"
    /\ \/ /\ DeleteOldImageActs(storageType)
          /\ \E sendOk \in BOOLEAN :
               LET key == req[r].existing.image IN
                 /\ blobs' = S3AfterDelete(blobs, key, sendOk)
                 /\ req' = [req EXCEPT ![r].oldDeleted = deleteFromS3(key, sendOk),
                                       ![r].pc = "validate"]
       \/ \* the other backend: deleteOldImage does nothing
          /\ ~DeleteOldImageActs(storageType)
          /\ blobs' = blobs
          /\ req' = [req EXCEPT ![r].pc = "validate"]
    /\ UNCHANGED <<del, cre, users, uu, av>>
    /\ UNCHANGED <<storageType, settings, events, evVer, evLock, participations,
                   notifications, logs>>

\* updateData, Settings.findOne(), the two configuration checks,
\* detectEventChanges
Validate(r) ==
    /\ req[r].pc = "validate"
    /\ LET q  == req[r]
           ud == UpdateData(q.body, q.imageKey, q.existing)
           q1 == [q EXCEPT !.updateData = ud]
       IN  \/ /\ SettingsMissing(settings)
              /\ req' = [req EXCEPT ![r] = AbortAndRespond(q1, 500)]
           \/ \* Settings.findOne() fails
              req' = [req EXCEPT ![r] = Throw(q1, "settings")]
           \/ /\ ~SettingsMissing(settings)
              /\ CapacityExceeded(ud, settings)
              /\ req' = [req EXCEPT ![r] = AbortAndRespond(q1, 400)]
           \/ /\ ~SettingsMissing(settings)
              /\ ~CapacityExceeded(ud, settings)
              /\ req' = [req EXCEPT ![r] =
                           [q1 EXCEPT !.changes = detectEventChanges(q.existing, ud),
                                      !.pc = "persist"]]
    /\ UNCHANGED <<del, cre, users, uu, av>>
    /\ UNCHANGED <<storageType, settings, events, evVer, evLock, participations,
                   notifications, blobs, logs>>

\* Event.findByIdAndUpdate(id, updateData, {new, runValidators, session})
Persist(r) ==
    /\ req[r].pc = "persist"
    /\ LET q == req[r] IN
         \/ /\ WriteConflict(r, q.eventId, q.snapVer, evVer, evLock)
            /\ req' = [req EXCEPT ![r] = Throw(q, "conflict")]
            /\ evLock' = evLock
         \/ \* validation or storage error
            /\ ~WriteConflict(r, q.eventId, q.snapVer, evVer, evLock)
            /\ req' = [req EXCEPT ![r] = Throw(q, "persist")]
            /\ evLock' = evLock
         \/ /\ ~WriteConflict(r, q.eventId, q.snapVer, evVer, evLock)
            /\ req' = [req EXCEPT ![r].wEvent = ApplyUpdate(q.existing, q.updateData),
                                  ![r].pc = "log"]
            /\ evLock' = [evLock EXCEPT ![q.eventId] = {r}]
    /\ UNCHANGED <<del, cre, users, uu, av>>
    /\ UNCHANGED <<storageType, settings, events, evVer, participations,
                   notifications, blobs, logs>>

\* await logActivity(req.userId, 'updated', 'event', id, {...}): no session
Log(r) ==
    /\ req[r].pc = "log"
    /\ \E sinkOk \in BOOLEAN :
         /\ logs' = IF sinkOk
                    THEN logs \cup {[by |-> "update", req |-> r, verb |-> "updated",
                                     entity |-> req[r].eventId]}
                    ELSE logs
         /\ req' = [req EXCEPT ![r] =
                      IF logActivityRejects(sinkOk)
                      THEN Throw([req[r] EXCEPT !.logFailed = TRUE], "log")
                      ELSE [req[r] EXCEPT !.logFailed = ~sinkOk,
                                          !.pc = IF FanOutDue(req[r].changes)
                                                 THEN "notify" ELSE "commit"]]
    /\ UNCHANGED <<del, cre, users, uu, av>>
    /\ UNCHANGED <<storageType, settings, events, evVer, evLock, participations,
                   notifications, blobs>>

\* Participation.find(...).session(session); Notification.create(notifications,
\* {session, ordered: true})
Notify(r) ==
    /\ req[r].pc = "notify"
    /\ LET q == req[r]
           targets == ApprovedParticipations(q.parts, q.eventId)
           drafts(ps) == NotificationDrafts(q.parts, ps, q.wEvent.title,
                                            q.existing.organizer, r)
       IN  \/ /\ targets = {}
              /\ req' = [req EXCEPT ![r].pc = "commit"]
              /\ notifications' = notifications
           \/ /\ targets # {}
              /\ LET w == SessionInsert(notifications, q.wNotifs, drafts(targets)) IN
                   /\ notifications' = w[1]
                   /\ req' = [req EXCEPT ![r].wNotifs = w[2], ![r].pc = "commit"]
           \/ \* the ordered batch insert fails at some document: the documents
              \* before it have been written
              /\ targets # {}
              /\ \E written \in SUBSET targets :
                   /\ written # targets
                   /\ LET w == SessionInsert(notifications, q.wNotifs, drafts(written)) IN
                        /\ notifications' = w[1]
                        /\ req' = [req EXCEPT ![r] =
                                     Throw([q EXCEPT !.wNotifs = w[2]], "notify")]
    /\ UNCHANGED <<del, cre, users, uu, av>>
    /\ UNCHANGED <<storageType, settings, events, evVer, evLock, participations,
                   blobs, logs>>

\* await session.commitTransaction()
Commit(r) ==
    /\ req[r].pc = "commit"
    /\ LET q == req[r] IN
         \/ /\ events' = [events EXCEPT ![q.eventId] = q.wEvent]
            /\ evVer' = [evVer EXCEPT ![q.eventId] = @ + 1]
            /\ evLock' = Release(r)
            /\ notifications' = notifications \cup q.wNotifs
            /\ req' = [req EXCEPT ![r].tx = "committed", ![r].pc = "respond"]
         \/ \* the commit fails
            /\ req' = [req EXCEPT ![r] = Throw(q, "commit")]
            /\ UNCHANGED <<events, evVer, evLock, notifications>>
    /\ UNCHANGED <<del, cre, users, uu, av>>
    /\ UNCHANGED <<storageType, settings, participations, blobs, logs>>

\* addSignedUrlsToEvents; res.status(200).json(updatedEvent); endSession
Respond(r) ==
    /\ req[r].pc = "respond"
    /\ req' = [req EXCEPT ![r].resp = 200, ![r].pc = "done", ![r].ended = TRUE]
    /\ UNCHANGED <<del, cre, users, uu, av>>
    /\ UNCHANGED <<storageType, settings, events, evVer, evLock, participations,
                   notifications, blobs, logs>>

\* await session.abortTransaction() in the catch block rejects when
\* commitTransaction has been called on the session, whether or not the
\* commit went through (the driver raises "Cannot call abortTransaction
\* after calling commitTransaction").
AbortRejected(q) == q.err = "commit"

\* the catch block is left by that exception: no cleanup, no response; finally
\* session.endSession() discards the transaction
CatchLeft(q) ==
    [q EXCEPT !.tx = "commitFailed", !.pc = "done", !.ended = TRUE,
              !.wEvent = NoDoc, !.wNotifs = {}]

\* catch (err): abortTransaction, temp-file cleanup, res.status(400); finally
\* endSession
Catch(r) ==
    /\ req[r].pc = "catch"
    /\ req' = [req EXCEPT ![r] =
                 IF AbortRejected(req[r])
                 THEN CatchLeft(req[r])
                 ELSE [AbortAndRespond(req[r], 400) EXCEPT !.tmp = FALSE]]
    /\ evLock' = Release(r)
    /\ blobs' = CatchStorage(req[r], blobs)
    /\ UNCHANGED <<del, cre, users, uu, av>>
    /\ UNCHANGED <<storageType, settings, events, evVer, participations,
                   notifications, logs>>

Next ==
    \E r \in Reqs :
        \/ Load(r)
        \/ Upload(r)
        \/ DeleteOld(r)
        \/ Validate(r)
        \/ Persist(r)
        \/ Log(r)
        \/ Notify(r)
        \/ Commit(r)
        \/ Respond(r)
        \/ Catch(r)

Spec == Init /\ [][Next]_vars

(***************************************************************************)
(* deleteEvent, createEvent and the notification route                     *)
(***************************************************************************)
\* the request of updateEvent that runs next to deleteEvent and createEvent
FirstReq == CHOOSE r \in Reqs : \A o \in Reqs : r <= o

\* at most this many handler calls are made in one behaviour of the event
\* handlers (updateEvent, deleteEvent, createEvent, POST /notifications) or
\* of the user handlers (updateUser, updateAvatar)
MaxCalls == 2

\* the handlers called so far
Calls ==
    (IF req[FirstReq].pc # "idle" THEN 1 ELSE 0)
    + (IF del.pc # "idle" THEN 1 ELSE 0)
    + (IF cre.pc # "idle" THEN 1 ELSE 0)
    + (IF \E n \in notifications : n.req \notin Reqs THEN 1 ELSE 0)

\* PUT /events/:eventId arrives
EvLoad == Calls < MaxCalls /\ Load(FirstReq)

\* the id MongoDB gives to the document createEvent saves
NewEventId == "e3"

\* the storage key a createEvent upload is stored under
CreateKey == FreshKey(NumReqs + 1)

\* Faulty variant: the cascade touches approved participations only.
CascadeTargets_ApprovedOnly(parts, e) ==
    {p \in PartIds : parts[p].event = e /\ parts[p].status = "approved"}

\* Participation.updateMany({ event: deletedEvent._id }, ...): the filter
CascadeTargets(parts, e) == {p \in PartIds : parts[p].event = e}

\* Participation.updateMany(..., { status: 'deleted' }): the update
Cascade(parts, e) ==
    [p \in PartIds |-> IF p \in CascadeTargets(parts, e)
                       THEN [parts[p] EXCEPT !.status = "deleted"]
                       ELSE parts[p]]

\* catch (err) of deleteEvent: res.status(500), no further await
DelFail(d, what) == [d EXCEPT !.pc = "done", !.resp = 500, !.err = what]

\* Event.findByIdAndUpdate(eventId, { status: 'deleted' }, { new: true }):
\* a write outside any transaction, which waits for the write lock an open
\* transaction holds on the document.
DelMark ==
    /\ del.pc = "idle"
    /\ Calls < MaxCalls
    /\ \E e \in EventIds :
         /\ evLock[e] = {}
         /\ LET d == [IdleDel EXCEPT !.eventId = e] IN
              \/ \* if (!deletedEvent) return res.status(404)
                 /\ NotFound(events[e])
                 /\ del' = [d EXCEPT !.pc = "done", !.resp = 404]
                 /\ UNCHANGED <<events, evVer>>
              \/ /\ ~NotFound(events[e])
                 /\ events' = [events EXCEPT ![e].status = "deleted"]
                 /\ evVer' = [evVer EXCEPT ![e] = @ + 1]
                 /\ del' = [d EXCEPT !.pc = "cascade",
                                     !.deleted = [events[e] EXCEPT !.status = "deleted"]]
              \/ \* the query itself fails
                 /\ del' = DelFail(d, "mark")
                 /\ UNCHANGED <<events, evVer>>
    /\ UNCHANGED <<storageType, settings, evLock, participations, notifications,
                   blobs, logs, req, cre>>
    /\ UNCHANGED <<users, uu, av>>

\* await Participation.updateMany({ event: deletedEvent._id }, { status: 'deleted' })
DelCascade ==
    /\ del.pc = "cascade"
    /\ \/ /\ participations' = Cascade(participations, del.eventId)
          /\ del' = [del EXCEPT !.pc = IF del.deleted.image # NoKey
                                       THEN "image" ELSE "log"]
       \/ \* updateMany rejects
          /\ participations' = participations
          /\ del' = DelFail(del, "cascade")
    /\ UNCHANGED <<storageType, settings, events, evVer, evLock, notifications,
                   blobs, logs, req, cre>>
    /\ UNCHANGED <<users, uu, av>>

\* if (deletedEvent.image) await deleteOldImage(deletedEvent.image)
DelImage ==
    /\ del.pc = "image"
    /\ \/ /\ DeleteOldImageActs(storageType)
          /\ \E sendOk \in BOOLEAN :
               blobs' = S3AfterDelete(blobs, del.deleted.image, sendOk)
       \/ /\ ~DeleteOldImageActs(storageType)
          /\ blobs' = blobs
    /\ del' = [del EXCEPT !.pc = "log"]
    /\ UNCHANGED <<storageType, settings, events, evVer, evLock, participations,
                   notifications, logs, req, cre>>
    /\ UNCHANGED <<users, uu, av>>

\* await logActivity(req.userId, 'deleted', 'event', ...); res.status(200)
DelLog ==
    /\ del.pc = "log"
    /\ \E sinkOk \in BOOLEAN :
         /\ logs' = IF sinkOk
                    THEN logs \cup {[by |-> "delete", req |-> 0, verb |-> "deleted",
                                     entity |-> del.eventId]}
                    ELSE logs
         /\ del' = IF logActivityRejects(sinkOk)
                   THEN DelFail([del EXCEPT !.logFailed = TRUE], "log")
                   ELSE [del EXCEPT !.logFailed = ~sinkOk, !.resp = 200,
                                    !.pc = "done"]
    /\ UNCHANGED <<storageType, settings, events, evVer, evLock, participations,
                   notifications, blobs, req, cre>>
    /\ UNCHANGED <<users, uu, av>>

\* catch (err) of createEvent: temp-file cleanup, res.status(400), no
\* further await
CreFail(c, what) ==
    [c EXCEPT !.pc = "done", !.resp = 400, !.err = what, !.tmp = FALSE]

\* the capacities a createEvent body carries: none, a falsy one, one under
\* and one over the ceiling
CreateCapacities == {Absent, Some(0), Some(60), Some(150)}

\* Faulty variant: a requested capacity is never compared with the ceiling.
CreateExceeded_Never(m, maxAllowed) == FALSE

\* if (req.body.maxAttendees && req.body.maxAttendees > maxAllowed)
\* (a comparison with undefined is false in JavaScript)
CreateExceeded(m, maxAllowed) ==
    m.has /\ m.val # 0 /\ maxAllowed.has /\ m.val > maxAllowed.val

\* maxAttendees: req.body.maxAttendees || maxAllowed; a field left undefined
\* is stored as 0 here
CreateMaxAttendees(m, maxAllowed) ==
    IF m.has /\ m.val # 0 THEN m.val
    ELSE IF maxAllowed.has THEN maxAllowed.val ELSE 0

\* new Event({ ...req.body, organizer: req.userId, maxAttendees: ..., image })
NewEvent(c) ==
    Doc("t3", CreateMaxAttendees(c.maxAttendees, c.maxAllowed), c.imageKey,
        "o3", "upcoming")

\* POST /events arrives: the upload middleware has stored req.file
CreBegin ==
    /\ cre.pc = "idle"
    /\ Calls < MaxCalls
    /\ \E f \in BOOLEAN, m \in CreateCapacities :
         cre' = [IdleCre EXCEPT !.file = f,
                                !.tmp = (f /\ storageType = "cloudinary"),
                                !.maxAttendees = m,
                                !.pc = IF f THEN "upload" ELSE "settings"]
    /\ UNCHANGED <<storageType, settings, events, evVer, evLock, participations,
                   notifications, blobs, logs, req, del>>
    /\ UNCHANGED <<users, uu, av>>

\* uploadToS3 / uploadToCloudinary + fs.unlinkSync(req.file.path)
CreUpload ==
    /\ cre.pc = "upload"
    /\ \/ /\ storageType = "s3"
          /\ blobs' = blobs \cup {CreateKey}
          /\ cre' = [cre EXCEPT !.imageKey = CreateKey, !.pc = "settings"]
       \/ /\ storageType = "cloudinary"
          /\ \E k \in {CreateKey, NoKey} :
               /\ blobs' = blobs \cup ({k} \ {NoKey})
               /\ cre' = [cre EXCEPT !.imageKey = k, !.tmp = FALSE,
                                     !.pc = "settings"]
       \/ \* the upload throws
          /\ blobs' = blobs
          /\ cre' = CreFail(cre, "upload")
    /\ UNCHANGED <<storageType, settings, events, evVer, evLock, participations,
                   notifications, logs, req, del>>
    /\ UNCHANGED <<users, uu, av>>

\* Settings.findOne(), the configuration check, the capacity check and the
\* construction of the document
CreSettings ==
    /\ cre.pc = "settings"
    /\ \/ /\ SettingsMissing(settings)
          /\ cre' = [cre EXCEPT !.pc = "done", !.resp = 500, !.err = "settings"]
       \/ /\ ~SettingsMissing(settings)
          /\ LET c == [cre EXCEPT !.maxAllowed = settings.maxAttendeesPerEvent] IN
               cre' = IF CreateExceeded(c.maxAttendees, c.maxAllowed)
                      THEN [c EXCEPT !.pc = "done", !.resp = 500, !.err = "capacity"]
                      ELSE [c EXCEPT !.pc = "save", !.newEvent = NewEvent(c)]
       \/ \* the query itself fails
          cre' = CreFail(cre, "settings query")
    /\ UNCHANGED <<storageType, settings, events, evVer, evLock, participations,
                   notifications, blobs, logs, req, del>>
    /\ UNCHANGED <<users, uu, av>>

\* await newEvent.save()
CreSave ==
    /\ cre.pc = "save"
    /\ \/ /\ events' = [events EXCEPT ![NewEventId] = cre.newEvent]
          /\ cre' = [cre EXCEPT !.saved = TRUE, !.pc = "log"]
       \/ \* validation or the insert fails
          /\ events' = events
          /\ cre' = CreFail(cre, "save")
    /\ UNCHANGED <<storageType, settings, evVer, evLock, participations,
                   notifications, blobs, logs, req, del>>
    /\ UNCHANGED <<users, uu, av>>

\* await logActivity(req.userId, 'created', 'event', ...)
CreLog ==
    /\ cre.pc = "log"
    /\ \E sinkOk \in BOOLEAN :
         /\ logs' = IF sinkOk
                    THEN logs \cup {[by |-> "create", req |-> 0, verb |-> "created",
                                     entity |-> NewEventId]}
                    ELSE logs
         /\ cre' = IF logActivityRejects(sinkOk)
                   THEN CreFail([cre EXCEPT !.logFailed = TRUE], "log")
                   ELSE [cre EXCEPT !.logFailed = ~sinkOk, !.pc = "respond"]
    /\ UNCHANGED <<storageType, settings, events, evVer, evLock, participations,
                   notifications, blobs, req, del>>
    /\ UNCHANGED <<users, uu, av>>

\* Event.findById(newEvent._id).populate(...), addSignedUrlsToEvents,
\* res.status(201)
CreRespond ==
    /\ cre.pc = "respond"
    /\ \/ cre' = [cre EXCEPT !.resp = 201, !.pc = "done"]
       \/ \* the query itself fails
          cre' = CreFail(cre, "populate")
    /\ UNCHANGED <<storageType, settings, events, evVer, evLock, participations,
                   notifications, blobs, logs, req, del>>
    /\ UNCHANGED <<users, uu, av>>

\* the notification a caller of POST /notifications supplies: every field
\* is the caller's choice, none comes from a request of updateEvent
ClientNotification(u) ==
    [userId |-> u, type |-> "eventUpdate", title |-> "t9", relatedId |-> "p1",
     notificationSender |-> "u9", isRead |-> FALSE, req |-> 0]

\* router.post("/", verifyToken, createNotification): any authenticated
\* caller adds a notification record
ClientCreateNotification ==
    /\ \A n \in notifications : n.req \in Reqs
    /\ Calls < MaxCalls
    /\ \E u \in {"u1", "u9"} :
         notifications' = notifications \cup {ClientNotification(u)}
    /\ UNCHANGED <<storageType, settings, events, evVer, evLock, participations,
                   blobs, logs, req, del, cre>>
    /\ UNCHANGED <<users, uu, av>>

\* what Event.find(filter) keeps: { status: { $ne: 'deleted' } }, or with
\* public: publicity true and status not in ended, cancelled, ongoing, deleted;
\* with organizerId: that organizer only
ListFilter(doc, isPublic, organizerId) ==
    /\ doc.exists
    /\ IF isPublic
       THEN doc.publicity /\ doc.status \notin {"ended", "cancelled", "ongoing", "deleted"}
       ELSE doc.status # "deleted"
    /\ organizerId.has => doc.organizer = organizerId.val

\* Participation.find({ user: participantId, status: 'approved' }) and
\* Event.find({ _id: { $in: participantEventIds } })
JoinedEvents(evs, parts, participantId) ==
    {e \in EventIds :
        /\ evs[e].exists
        /\ \E p \in PartIds : /\ parts[p].user = participantId
                              /\ parts[p].status = "approved"
                              /\ parts[p].event = e}

\* GET /events: the ids of the events in the response body
getAllEvent(evs, parts, isPublic, organizerId, participantId) ==
    LET found == {e \in EventIds : ListFilter(evs[e], isPublic, organizerId)}
        joined == JoinedEvents(evs, parts, participantId.val)
    IN  IF participantId.has
        THEN IF organizerId.has THEN found \cup joined ELSE joined
        ELSE found

NextEvents ==
    \/ EvLoad
    \/ Upload(FirstReq)
    \/ DeleteOld(FirstReq)
    \/ Validate(FirstReq)
    \/ Persist(FirstReq)
    \/ Log(FirstReq)
    \/ Notify(FirstReq)
    \/ Commit(FirstReq)
    \/ Respond(FirstReq)
    \/ Catch(FirstReq)
    \/ DelMark
    \/ DelCascade
    \/ DelImage
    \/ DelLog
    \/ CreBegin
    \/ CreUpload
    \/ CreSettings
    \/ CreSave
    \/ CreLog
    \/ CreRespond
    \/ ClientCreateNotification

SpecEvents == Init /\ [][NextEvents]_vars

(***************************************************************************)
(* updateUser and updateAvatar                                             *)
(***************************************************************************)
\* the handlers of the user controller called so far
UserCalls ==
    Cardinality({r \in Reqs : uu[r].pc # "idle"})
    + (IF av.pc # "idle" THEN 1 ELSE 0)

\* the storage key an updateAvatar upload is stored under
AvatarKey == FreshKey(NumReqs + 2)

\* the usernames, emails and passwords an updateUser body carries
BodyUsernames == {AbsentStr, SomeStr("a"), SomeStr("c")}

BodyEmails == {AbsentStr, SomeStr("c@")}

BodyPasswords == {"none", "wrong", "right"}

\* User.findOne({ username }) / User.findOne({ email }) finds a document
UsernameTaken(us, name) == \E u \in UserIds : us[u].exists /\ us[u].username = name

EmailTaken(us, mail) == \E u \in UserIds : us[u].exists /\ us[u].email = mail

\* if (username && username !== user.username)
NameCheckDue(q) == q.username.has /\ q.username.val # q.user.username

\* if (email && email !== user.email)
EmailCheckDue(q) == q.email.has /\ q.email.val # q.user.email

\* the next awaited call of updateUser once the user is loaded and the checks
\* before `from` are done
UUNext(q, from) ==
    IF from = "find" /\ NameCheckDue(q) THEN "name"
    ELSE IF from \in {"find", "name"} /\ EmailCheckDue(q) THEN "email"
    ELSE IF q.password # "none" THEN "password"
    ELSE "save"

\* the users collection rejects a save that would give two documents the
\* same username or email: no unique index is declared in the source or the
\* specification, so it never does
DuplicateKey(us, u, name, mail) == FALSE

\* user.save() of updateUser: the modified paths are written to the stored
\* document
SaveUser(us, q) ==
    [us EXCEPT ![q.userId].username = IF q.username.has THEN q.username.val ELSE @,
               ![q.userId].email = IF q.email.has THEN q.email.val ELSE @]

\* catch (error) of updateUser: res.status(500), no further await
UUFail(q, what) == [q EXCEPT !.pc = "done", !.resp = 500, !.err = what]

\* return res.status(code) before the save
UUReject(q, code) == [q EXCEPT !.pc = "done", !.resp = code]

\* PUT /users arrives; const user = await User.findById(req.userId)
UUFind(r) ==
    /\ uu[r].pc = "idle"
    /\ UserCalls < MaxCalls
    /\ \E u \in UserIds, n \in BodyUsernames, m \in BodyEmails, w \in BodyPasswords :
         LET q == [IdleUU EXCEPT !.userId = u, !.username = n, !.email = m,
                                 !.password = w, !.user = users[u]]
         IN  \/ /\ ~users[u].exists
                /\ uu' = [uu EXCEPT ![r] = UUReject([q EXCEPT !.user = NoUser], 404)]
             \/ /\ users[u].exists
                /\ uu' = [uu EXCEPT ![r] = [q EXCEPT !.pc = UUNext(q, "find")]]
             \/ \* the query itself fails
                uu' = [uu EXCEPT ![r] = UUFail([q EXCEPT !.user = NoUser], "find")]
    /\ UNCHANGED <<storageType, settings, events, evVer, evLock, participations,
                   notifications, blobs, logs, req, del, cre, users, av>>

\* const existingUser = await User.findOne({ username })
UUCheckName(r) ==
    /\ uu[r].pc = "name"
    /\ \/ /\ UsernameTaken(users, uu[r].username.val)
          /\ uu' = [uu EXCEPT ![r] = UUReject(uu[r], 400)]
       \/ /\ ~UsernameTaken(users, uu[r].username.val)
          /\ uu' = [uu EXCEPT ![r].pc = UUNext(uu[r], "name")]
       \/ uu' = [uu EXCEPT ![r] = UUFail(uu[r], "name")]
    /\ UNCHANGED <<storageType, settings, events, evVer, evLock, participations,
                   notifications, blobs, logs, req, del, cre, users, av>>

\* const existingUser = await User.findOne({ email })
UUCheckEmail(r) ==
    /\ uu[r].pc = "email"
    /\ \/ /\ EmailTaken(users, uu[r].email.val)
          /\ uu' = [uu EXCEPT ![r] = UUReject(uu[r], 400)]
       \/ /\ ~EmailTaken(users, uu[r].email.val)
          /\ uu' = [uu EXCEPT ![r].pc = UUNext(uu[r], "email")]
       \/ uu' = [uu EXCEPT ![r] = UUFail(uu[r], "email")]
    /\ UNCHANGED <<storageType, settings, events, evVer, evLock, participations,
                   notifications, blobs, logs, req, del, cre, users, av>>

\* bcrypt.compare(currentPassword, user.password), bcrypt.hash(password, 10)
UUPassword(r) ==
    /\ uu[r].pc = "password"
    /\ uu' = [uu EXCEPT ![r] = IF uu[r].password = "wrong"
                               THEN UUReject(uu[r], 400)
                               ELSE [uu[r] EXCEPT !.pc = "save"]]
    /\ UNCHANGED <<storageType, settings, events, evVer, evLock, participations,
                   notifications, blobs, logs, req, del, cre, users, av>>

\* await user.save()
UUSave(r) ==
    /\ uu[r].pc = "save"
    /\ LET q == uu[r]
           after == SaveUser(users, q)
       IN  \/ /\ ~DuplicateKey(users, q.userId, after[q.userId].username,
                               after[q.userId].email)
              /\ users' = after
              /\ uu' = [uu EXCEPT ![r].pc = "log"]
           \/ \* validation or the write fails
              /\ users' = users
              /\ uu' = [uu EXCEPT ![r] = UUFail(q, "save")]
    /\ UNCHANGED <<storageType, settings, events, evVer, evLock, participations,
                   notifications, blobs, logs, req, del, cre, av>>

\* await logActivity(req.userId, 'updated', 'user', ...); addSignedUrlsToUsers;
\* res.status(200)
UULog(r) ==
    /\ uu[r].pc = "log"
    /\ \E sinkOk \in BOOLEAN :
         /\ logs' = IF sinkOk
                    THEN logs \cup {[by |-> "updateUser", req |-> r, verb |-> "updated",
                                     entity |-> uu[r].userId]}
                    ELSE logs
         /\ uu' = [uu EXCEPT ![r] = IF logActivityRejects(sinkOk)
                                    THEN UUFail(uu[r], "log")
                                    ELSE [uu[r] EXCEPT !.resp = 200, !.pc = "done"]]
    /\ UNCHANGED <<storageType, settings, events, evVer, evLock, participations,
                   notifications, blobs, req, del, cre, users, av>>

\* catch (err) of updateAvatar: temp-file cleanup, res.status(500), no
\* further await
AvFail(a, what) ==
    [a EXCEPT !.pc = "done", !.resp = 500, !.err = what, !.tmp = FALSE]

\* if (user.avatar && avatarKey) await deleteOldImage(user.avatar)
OldAvatarDue(user, avatarKey) == user.avatar # NoKey /\ avatarKey # NoKey

\* PUT /users/avatar arrives; if (!req.file) return res.status(400)
AvBegin ==
    /\ av.pc = "idle"
    /\ UserCalls < MaxCalls
    /\ \E u \in UserIds, f \in BOOLEAN :
         LET a == [IdleAv EXCEPT !.userId = u, !.file = f,
                                 !.tmp = (f /\ storageType = "cloudinary")]
         IN  av' = IF f THEN [a EXCEPT !.pc = "upload"]
                   ELSE [a EXCEPT !.pc = "done", !.resp = 400]
    /\ UNCHANGED <<storageType, settings, events, evVer, evLock, participations,
                   notifications, blobs, logs, req, del, cre, users, uu>>

\* uploadToS3 / uploadToCloudinary + fs.unlinkSync(req.file.path)
AvUpload ==
    /\ av.pc = "upload"
    /\ \/ /\ storageType = "s3"
          /\ blobs' = blobs \cup {AvatarKey}
          /\ av' = [av EXCEPT !.avatarKey = AvatarKey, !.pc = "find"]
       \/ /\ storageType = "cloudinary"
          /\ \E k \in {AvatarKey, NoKey} :
               /\ blobs' = blobs \cup ({k} \ {NoKey})
               /\ av' = [av EXCEPT !.avatarKey = k, !.tmp = FALSE, !.pc = "find"]
       \/ \* the upload throws
          /\ blobs' = blobs
          /\ av' = AvFail(av, "upload")
    /\ UNCHANGED <<storageType, settings, events, evVer, evLock, participations,
                   notifications, logs, req, del, cre, users, uu>>

\* const user = await User.findById(req.userId)
AvFind ==
    /\ av.pc = "find"
    /\ \/ /\ ~users[av.userId].exists
          /\ av' = [av EXCEPT !.pc = "done", !.resp = 404]
       \/ /\ users[av.userId].exists
          /\ av' = [av EXCEPT !.user = users[av.userId],
                              !.pc = IF OldAvatarDue(users[av.userId], av.avatarKey)
                                     THEN "delOld" ELSE "save"]
       \/ \* the query itself fails
          av' = AvFail(av, "find")
    /\ UNCHANGED <<storageType, settings, events, evVer, evLock, participations,
                   notifications, blobs, logs, req, del, cre, users, uu>>

\* await deleteOldImage(user.avatar)
AvDeleteOld ==
    /\ av.pc = "delOld"
    /\ \/ /\ DeleteOldImageActs(storageType)
          /\ \E sendOk \in BOOLEAN :
               /\ blobs' = S3AfterDelete(blobs, av.user.avatar, sendOk)
               /\ av' = [av EXCEPT !.oldDeleted = (sendOk /\ av.user.avatar \in blobs),
                                   !.pc = "save"]
       \/ /\ ~DeleteOldImageActs(storageType)
          /\ blobs' = blobs
          /\ av' = [av EXCEPT !.pc = "save"]
    /\ UNCHANGED <<storageType, settings, events, evVer, evLock, participations,
                   notifications, logs, req, del, cre, users, uu>>

\* user.avatar = avatarKey; await user.save()
AvSave ==
    /\ av.pc = "save"
    /\ \/ /\ users' = [users EXCEPT ![av.userId].avatar = av.avatarKey]
          /\ av' = [av EXCEPT !.saved = TRUE, !.pc = "log"]
       \/ \* validation or the write fails
          /\ users' = users
          /\ av' = AvFail(av, "save")
    /\ UNCHANGED <<storageType, settings, events, evVer, evLock, participations,
                   notifications, blobs, logs, req, del, cre, uu>>

\* await logActivity(req.userId, 'updated', 'user', ...); addSignedUrlsToUsers;
\* res.status(200)
AvLog ==
    /\ av.pc = "log"
    /\ \E sinkOk \in BOOLEAN :
         /\ logs' = IF sinkOk
                    THEN logs \cup {[by |-> "updateAvatar", req |-> 0, verb |-> "updated",
                                     entity |-> av.userId]}
                    ELSE logs
         /\ av' = IF logActivityRejects(sinkOk)
                  THEN AvFail(av, "log")
                  ELSE [av EXCEPT !.resp = 200, !.pc = "done"]
    /\ UNCHANGED <<storageType, settings, events, evVer, evLock, participations,
                   notifications, blobs, req, del, cre, users, uu>>

NextUsers ==
    \/ \E r \in Reqs :
          \/ UUFind(r)
          \/ UUCheckName(r)
          \/ UUCheckEmail(r)
          \/ UUPassword(r)
          \/ UUSave(r)
          \/ UULog(r)
    \/ AvBegin
    \/ AvUpload
    \/ AvFind
    \/ AvDeleteOld
    \/ AvSave
    \/ AvLog

SpecUsers == Init /\ [][NextUsers]_vars

(***************************************************************************)
(* Properties                                                              *)
(***************************************************************************)
\* Notification documents created by request r
NotifsOf(r) == {n \in notifications : n.req = r}

Started(r) == req[r].pc # "idle"

\* C1: in every execution of updateEvent that carries a new media file for
\* an event that already has an image, the old media key is deleted only
\* after the transaction has committed: a request that has deleted the old
\* blob has a committed transaction (so none that ends Aborted deleted it).
C1_OldMediaDeletedOnlyAfterCommit ==
    \A r \in Reqs : req[r].oldDeleted => req[r].tx = "committed"

\* C2: in every reachable state the image key stored on an Event refers to
\* a blob that is present in storage.
C2_EventImageNotDeleted ==
    \A e \in EventIds :
        (events[e].exists /\ events[e].image # NoKey) => events[e].image \in blobs

\* The ceiling is configured
CeilingConfigured ==
    settings.exists /\ settings.eventSettings /\ settings.maxAttendeesPerEvent.has

\* request r asks for a capacity above the configured ceiling
OverCeiling(r) ==
    /\ CeilingConfigured
    /\ req[r].body.maxAttendees.has
    /\ req[r].body.maxAttendees.val > settings.maxAttendeesPerEvent.val

\* the stored Event of request r is as r found it unless another
\* transaction has committed a write to it since
StoredEventAsFound(r) ==
    (req[r].existing.exists /\ evVer[req[r].eventId] = req[r].snapVer)
        => events[req[r].eventId] = req[r].existing

\* C3: for every updateEvent request on an existing event whose maxAttendees
\* exceeds the configured ceiling, the transaction never commits and no
\* write or notification is staged or stored for it; once the request has
\* ended it is aborted, the response is 400 and the stored Event, its media
\* key included, is what it was before the request.
C3_OverCeilingAborts ==
    \A r \in Reqs :
        (Started(r) /\ OverCeiling(r) /\ events[req[r].eventId].exists) =>
            /\ req[r].tx # "committed"
            /\ NotifsOf(r) = {}
            /\ req[r].wNotifs = {}
            /\ ~req[r].wEvent.exists
            /\ StoredEventAsFound(r)
            /\ (req[r].pc = "done" => (req[r].tx = "aborted" /\ req[r].resp = 400))

\* C3 witness: a request over the ceiling reached the capacity check and was
\* answered 400.
C3_Witness ==
    \E r \in Reqs :
        /\ OverCeiling(r)
        /\ req[r].pc = "done"
        /\ req[r].err = ""
        /\ req[r].resp = 400
        /\ req[r].updateData.maxAttendees.has

\* the approved participations of r's event, as r's transaction sees them
ApprovedOf(r) ==
    {p \in PartIds : /\ req[r].parts[p].event = req[r].eventId
                     /\ req[r].parts[p].status = "approved"}

\* C4: for every committed updateEvent in which the change detector reported
\* a change, the stored notifications of the request are exactly one per
\* approved participation of the event (none for any other participation),
\* each of type eventUpdate, addressed to the participation's user, related
\* to the participation, and unread.
C4_OneNotificationPerApproved ==
    \A r \in Reqs :
        (req[r].tx = "committed" /\ req[r].changes) =>
            /\ \A p \in ApprovedOf(r) :
                 Cardinality({n \in NotifsOf(r) : n.relatedId = p}) = 1
            /\ \A n \in NotifsOf(r) :
                 /\ n.relatedId \in ApprovedOf(r)
                 /\ n.type = "eventUpdate"
                 /\ n.userId = req[r].parts[n.relatedId].user
                 /\ n.isRead = FALSE

\* C4 witness: a committed, changed update of an event with two approved
\* participations whose two notifications are stored.
C4_Witness ==
    \E r \in Reqs :
        /\ req[r].tx = "committed"
        /\ req[r].changes
        /\ Cardinality(ApprovedOf(r)) = 2
        /\ Cardinality(NotifsOf(r)) = 2

\* the notifications request r owes: one per approved participation when a
\* change was detected, none otherwise
FanOutOf(r) ==
    IF req[r].changes THEN ApprovedOf(r) ELSE {}

\* C5: the Event update and the notification fan-out are atomic. At every
\* moment either the request's transaction is committed, the stored Event is
\* the updated one and every notification of the fan-out is stored, or it is
\* not committed, the stored Event is as found and no notification of the
\* request is stored (no partial batch, none after a failed batch insert).
C5_UpdateAndFanOutAtomic ==
    \A r \in Reqs :
        \/ /\ req[r].tx = "committed"
           /\ {n.relatedId : n \in NotifsOf(r)} = FanOutOf(r)
           /\ evVer[req[r].eventId] = req[r].snapVer + 1 =>
                events[req[r].eventId] = req[r].wEvent
        \/ /\ req[r].tx # "committed"
           /\ NotifsOf(r) = {}
           /\ StoredEventAsFound(r)

\* C5 witness: the batch insert failed after the Event update was staged,
\* and the request ended aborted.
C5_Witness ==
    \E r \in Reqs :
        /\ req[r].pc = "done"
        /\ req[r].err = "notify"
        /\ req[r].tx = "aborted"
        /\ events[req[r].eventId] = req[r].existing

\* C6: a request on an event without any approved participation never
\* creates a notification, whether or not fields changed.
C6_NoApprovedNoNotification ==
    \A r \in Reqs :
        (Started(r) /\ ApprovedOf(r) = {}) =>
            (NotifsOf(r) = {} /\ req[r].wNotifs = {})

\* C6 witness: a committed update that changed an event without approved
\* participations.
C6_Witness ==
    \E r \in Reqs :
        /\ req[r].tx = "committed"
        /\ req[r].changes
        /\ ApprovedOf(r) = {}
        /\ \E p \in PartIds : req[r].parts[p].event = req[r].eventId

\* C7: a request for which the change detector reports no material change
\* creates no notification, even if approved participants exist.
C7_NoChangeNoNotification ==
    \A r \in Reqs :
        (req[r].existing.exists
           /\ ~detectEventChanges(req[r].existing,
                                  UpdateData(req[r].body, req[r].imageKey, req[r].existing))) =>
            (NotifsOf(r) = {} /\ req[r].wNotifs = {})

\* C7 witness: a committed update without material change of an event that
\* has approved participations (the capacity was updated).
C7_Witness ==
    \E r \in Reqs :
        /\ req[r].tx = "committed"
        /\ ~req[r].changes
        /\ ApprovedOf(r) # {}
        /\ events[req[r].eventId] # req[r].existing

\* C8: two updateEvent requests that read the same state of the same Event
\* never both commit; the one that does not commit ends aborted with an
\* error response, and neither its Event changes nor its notifications are
\* applied. (A request whose own commitTransaction call failed did not lose
\* to the other writer; how it ends is the subject of C22.)
C8_ConcurrentUpdatesSerialized ==
    \A r1, r2 \in Reqs :
        (/\ r1 # r2
         /\ req[r1].existing.exists
         /\ req[r2].existing.exists
         /\ req[r1].eventId = req[r2].eventId
         /\ req[r1].snapVer = req[r2].snapVer
         /\ req[r1].tx = "committed") =>
            /\ req[r2].tx # "committed"
            /\ NotifsOf(r2) = {}
            /\ (req[r2].pc = "done" /\ req[r2].err # "commit") =>
                 /\ req[r2].tx = "aborted"
                 /\ req[r2].resp \in {400, 500}
            /\ evVer[req[r1].eventId] = req[r1].snapVer + 1 =>
                 events[req[r1].eventId] = req[r1].wEvent

\* C8 witness: one of two requests that read the same Event state committed,
\* the other met the write conflict and ended aborted.
C8_Witness ==
    \E r1, r2 \in Reqs :
        /\ r1 # r2
        /\ req[r1].eventId = req[r2].eventId
        /\ req[r1].snapVer = req[r2].snapVer
        /\ req[r1].tx = "committed"
        /\ req[r2].pc = "done"
        /\ req[r2].err = "conflict"
        /\ req[r2].tx = "aborted"

\* C9: when the event id does not exist (the lookup answers with no
\* document), the request is over: aborted, 404, nothing uploaded, nothing
\* deleted, no Event written and no notification staged or stored.
C9_UnknownEventNotFound ==
    \A r \in Reqs :
        (Started(r) /\ ~events[req[r].eventId].exists /\ req[r].err # "load") =>
            /\ req[r].pc = "done"
            /\ req[r].tx = "aborted"
            /\ req[r].resp = 404
            /\ req[r].imageKey = NoKey
            /\ FreshKey(r) \notin blobs
            /\ ~req[r].oldDeleted
            /\ ~req[r].wEvent.exists
            /\ req[r].wNotifs = {}
            /\ NotifsOf(r) = {}

\* C9 witness: a request with a file for an unknown event id was answered 404.
C9_Witness ==
    \E r \in Reqs :
        /\ ~events[req[r].eventId].exists
        /\ req[r].file
        /\ req[r].resp = 404

\* C10: whenever the Settings record, its eventSettings or the ceiling value
\* is absent, a request that reaches the configuration check is aborted with
\* a 500 and persists nothing.
C10_NoCeilingNoUpdate ==
    \A r \in Reqs :
        ~CeilingConfigured =>
            /\ req[r].pc \notin {"persist", "log", "notify", "commit", "respond"}
            /\ req[r].tx # "committed"
            /\ ~req[r].wEvent.exists
            /\ (req[r].pc = "done" /\ req[r].existing.exists /\ req[r].err = "") =>
                 req[r].resp = 500

C12_PersistFailureKeepsNewUpload ==
    \A r \in Reqs :
        (req[r].err \in {"persist", "conflict"} /\ req[r].file
           /\ req[r].imageKey # NoKey) =>
            /\ req[r].tx # "committed"
            /\ (evVer[req[r].eventId] = req[r].snapVer =>
                  events[req[r].eventId].image = req[r].existing.image)
            /\ req[r].imageKey \in blobs
            /\ (req[r].pc = "done" => req[r].tx = "aborted")

\* C12 witness: a request with a file whose persist step failed validation
\* has ended; its upload is stored and is not the Event's image.
C12_Witness ==
    \E r \in Reqs :
        /\ req[r].err = "persist"
        /\ req[r].pc = "done"
        /\ req[r].imageKey \in blobs
        /\ events[req[r].eventId].image # req[r].imageKey

\* C13: the activity-log sink is invoked post-commit: an 'updated' entry of
\* an updateEvent request exists only if that request's transaction has
\* committed (so none exists for a request that ends Aborted).
C13_LogOnlyAfterCommit ==
    \A l \in logs :
        l.by = "update" => req[l.req].tx = "committed"

\* C15: with the Cloudinary backend, a request that carried a file and ended
\* Aborted has had its temp file removed by the time the response is sent.
C15_TempFileRemovedOnAbort ==
    \A r \in Reqs :
        (storageType = "cloudinary" /\ req[r].file /\ req[r].pc = "done"
           /\ req[r].tx = "aborted") => ~req[r].tmp

\* C16: deleteFromS3 never throws (it always returns a boolean), returns
\* false on any failure, and returns false when called on a key that is not
\* in storage.
C16_DeleteFromS3Total ==
    /\ \A key \in {NoKey, 1}, sendOk \in BOOLEAN :
         /\ deleteFromS3(key, sendOk) \in BOOLEAN
         /\ (~sendOk => deleteFromS3(key, sendOk) = FALSE)
    /\ [][\A r \in Reqs :
            (/\ req[r].pc = "delOld"
             /\ req'[r].pc # "delOld"
             /\ DeleteOldImageActs(storageType)
             /\ req[r].existing.image \notin blobs) => ~req'[r].oldDeleted]_vars


C17_SoftDeleteWithCascade ==
    /\ (del.pc = "done" /\ del.resp = 200) =>
          /\ events[del.eventId].exists
          /\ events[del.eventId].status = "deleted"
          /\ \A p \in PartIds : participations[p].event = del.eventId
                                   => participations[p].status = "deleted"
    /\ \A e \in EventIds : SeedEvents[e].exists => events[e].exists
    /\ cre.saved => events[NewEventId].exists
    /\ (del.pc = "done" /\ del.resp = 404) =>
          /\ ~del.deleted.exists
          /\ participations = SeedParticipations
          /\ \A e \in EventIds : events[e].status # "deleted"

\* a deletion of the event that has approved and pending participations
\* answered with success
C17_Witness ==
    /\ del.pc = "done" /\ del.resp = 200
    /\ \E p \in PartIds : /\ SeedParticipations[p].event = del.eventId
                          /\ SeedParticipations[p].status = "pending"

\* C18: in every reachable state, whatever the public, organizerId and
\* participantId filters, the response of getAllEvent contains no event
\* whose status is deleted.
C18_ListingExcludesDeleted ==
    \A isPublic \in BOOLEAN,
       organizerId \in {AbsentStr, SomeStr("o1")},
       participantId \in {AbsentStr, SomeStr("u1")} :
         \A e \in getAllEvent(events, participations, isPublic, organizerId,
                              participantId) :
            events[e].status # "deleted"

\* C19: notification records are created only by the server (the fan-out
\* of updateEvent), never directly by a client request.
C19_NotificationsOnlyServerSide ==
    \A n \in notifications : n.req \in Reqs

\* C20: with a ceiling configured, createEvent without maxAttendees saves
\* an event whose maxAttendees is the ceiling, createEvent with maxAttendees
\* above the ceiling creates no event, and every event createEvent saves has
\* maxAttendees at most the ceiling.
C20_CreateWithinCeiling ==
    CeilingConfigured =>
       /\ (cre.saved /\ ~cre.maxAttendees.has)
             => cre.newEvent.maxAttendees = settings.maxAttendeesPerEvent.val
       /\ (cre.maxAttendees.has
             /\ cre.maxAttendees.val > settings.maxAttendeesPerEvent.val)
             => (~cre.saved /\ ~events[NewEventId].exists)
       /\ cre.saved => cre.newEvent.maxAttendees <= settings.maxAttendeesPerEvent.val
       /\ (cre.saved /\ req[FirstReq].pc = "idle")
             => events[NewEventId].maxAttendees = cre.newEvent.maxAttendees

\* a creation without maxAttendees answered 201 under a configured ceiling
C20_Witness ==
    /\ CeilingConfigured
    /\ cre.saved /\ ~cre.maxAttendees.has /\ cre.resp = 201
    /\ events[NewEventId].maxAttendees = settings.maxAttendeesPerEvent.val

\* C21: an updateEvent request without a media file never changes the
\* Event's image key, even when the request body carries an image field; a
\* committed updateEvent with a file sets the image key to exactly the key
\* the upload returned.
C21_ImageKeyFollowsUpload ==
    \A r \in Reqs :
        /\ (req[r].wEvent.exists /\ ~req[r].file)
              => req[r].wEvent.image = req[r].existing.image
        /\ (req[r].tx = "committed" /\ req[r].file)
              => req[r].wEvent.image = req[r].imageKey

\* C22: every execution of updateEvent resolves its transaction exactly
\* once and sends exactly one response: a finished request has answered, has
\* either committed or aborted, answered 200 exactly when it committed and
\* with an error exactly when it aborted, and has ended its session.
C22_TransactionResolvedOnce ==
    \A r \in Reqs :
        req[r].pc = "done" =>
            /\ req[r].ended
            /\ req[r].resp # 0
            /\ req[r].tx \in {"committed", "aborted"}
            /\ req[r].resp = 200 <=> req[r].tx = "committed"
            /\ req[r].resp \in {400, 404, 500} <=> req[r].tx = "aborted"

\* C23: after any interleaving of updateUser requests, no two distinct
\* users share the same username or the same email.
C23_UsernamesAndEmailsUnique ==
    \A u1, u2 \in UserIds :
        (u1 # u2 /\ users[u1].exists /\ users[u2].exists) =>
            /\ users[u1].username # users[u2].username
            /\ users[u1].email # users[u2].email

\* C24: after any outcome of updateAvatar, the avatar key stored on a user
\* refers to a blob that is in storage, and the old avatar blob has been
\* deleted only if the user was saved with the new key.
C24_AvatarKeyRefersToStoredBlob ==
    av.pc = "done" =>
        /\ \A u \in UserIds :
              (users[u].exists /\ users[u].avatar # NoKey) => users[u].avatar \in blobs
        /\ av.oldDeleted => av.saved

====
